---------------------------- MODULE Spec2Model ----------------------------
(***************************************************************************)
(* filmFS: a read-only FUSE filesystem over a flat directory of video      *)
(* files, with watch logging on read.  The model follows src/src/video.c   *)
(* (the catalog), src/src/operations.c (the four callbacks and the watch   *)
(* check), src/src/database.c (db_insert) and src/src/main.c (startup).    *)
(*                                                                         *)
(* C strings are sequences of one-character strings.                       *)
(***************************************************************************)
EXTENDS Integers, Sequences, FiniteSets, TLC

VARIABLES
    pc,           \* position of main(): "load_config" .. "mounted" / "exit_failure"
    boot,         \* history: what load_config, db_init and library_init returned to main
    dir,          \* the library directory as readdir() enumerates it
    d_pos,        \* index of the entry the next readdir() returns
    files,        \* struct video_files: names, paths, count
    buffer_size,  \* library_init's local capacity of the two arrays
    origin,       \* history: for each stored entry, the index in dir it was read from
    heap,         \* allocations of library_init: live blocks, whether one was freed twice,
                  \* and which of files.names / files.paths is still a null pointer
    disk,         \* per entry of dir: is the name still linked, and the file's size
    fds,          \* open file descriptors of the process: fd -> index in dir of the open file
    sessions,     \* fi->fh of the file sessions the host layer holds open
    last_pid,     \* logging_handle's static last_pid
    inserts,      \* history: the db_insert calls made, in order
    res,          \* the last callback served: the request and what it returned
    th            \* worker threads inside logging_handle (concurrent dispatch)

catalog_vars == <<dir, d_pos, files, buffer_size, origin, heap>>
serve_vars == <<disk, fds, sessions, last_pid, inserts, res, th>>
vars == <<pc, boot, dir, d_pos, files, buffer_size, origin, heap,
          disk, fds, sessions, last_pid, inserts, res, th>>

-----------------------------------------------------------------------------
(* Program constants *)

FILES_MAX == 64

NUM_OF_VIDEO_EXTENSIONS == 11

video_extensions ==
    << <<"3","g","p">>, <<"a","v","i">>, <<"f","l","v">>, <<"o","g","v">>,
       <<"m","4","v">>, <<"m","o","v">>, <<"m","k","v">>, <<"m","p","4">>,
       <<"m","p","g">>, <<"m","p","e","g">>, <<"w","e","b","m">> >>

library_path == <<"/","l","/">>

NUM_OF_MEDIA_PLAYERS == 2

media_player_comm ==
    << <<"d","e","m","u","x">>,
       <<"v","l","c",":","d","i","s","k","$","0">> >>

proc_comm_len == 16

dir_permissions == 493     \* 0755

file_permissions == 420    \* 0644

ENOENT == 2

EIO == 5

ENOMEM == 12

EFAULT == 14

\* res while no callback's result is waiting to be returned
NoRes == [req |-> [op |-> "none"], ret |-> 0]

-----------------------------------------------------------------------------
(* Bounds of the model *)

MaxDir == 4        \* longest small library directory
MaxBig == 130      \* longest generated directory (crosses 64 and 128)
MaxSize == 2       \* largest file size, read size and offset
MaxFds == 2        \* most descriptors open at once
MaxInserts == 3    \* most db_insert calls in one run
NumThreads == 2    \* worker threads of the host layer serving reads at once

-----------------------------------------------------------------------------
(* libc helpers *)

UpperCase == <<"A","B","C","D","E","F","G","H","I","J","K","L","M",
               "N","O","P","Q","R","S","T","U","V","W","X","Y","Z">>
LowerCase == <<"a","b","c","d","e","f","g","h","i","j","k","l","m",
               "n","o","p","q","r","s","t","u","v","w","x","y","z">>

tolower(c) ==
    IF \E i \in 1..Len(UpperCase) : UpperCase[i] = c
    THEN LowerCase[CHOOSE i \in 1..Len(UpperCase) : UpperCase[i] = c]
    ELSE c

\* strrchr(s, ch): index of the last ch in s, 0 for NULL
strrchr(s, ch) ==
    IF \E i \in 1..Len(s) : s[i] = ch
    THEN CHOOSE i \in 1..Len(s) : s[i] = ch /\ \A j \in (i+1)..Len(s) : s[j] # ch
    ELSE 0

\* strcmp(a, b) = 0 iff the strings are equal
strcmp(a, b) == IF a = b THEN 0 ELSE 1

\* a block of the same length whose old contents were not carried over
realloc_fresh(arr, n) == [i \in 1..Len(arr) |-> <<>>]

\* realloc(arr, n): the block grown to n slots, its contents kept
realloc(arr, n) == IF Len(arr) <= n THEN arr ELSE SubSeq(arr, 1, n)

\* free() of a set of blocks, none of them through a null pointer
free(h, blocks) ==
    [h EXCEPT !.live = @ \ blocks,
              !.double_free = @ \/ ~(blocks \subseteq h.live)]

\* malloc()/strdup()/opendir() of a set of blocks
alloc(h, blocks) == [h EXCEPT !.live = @ \cup blocks, !.null = @ \ blocks]

-----------------------------------------------------------------------------
(* video.c *)

\* has_video_extension comparing the suffix as it is spelled, without tolower
has_video_extension_case_sensitive(filename) ==
    LET dot == strrchr(filename, ".") IN
    [ret |-> dot # 0 /\ \E i \in 1..NUM_OF_VIDEO_EXTENSIONS :
                strcmp(SubSeq(filename, dot + 1, Len(filename)), video_extensions[i]) = 0,
     d_name |-> filename]

\* has_video_extension(filename): ret is the result; d_name is the caller's
\* buffer afterwards, since the loop at lines 87-89 lower-cases the
\* characters after the last '.' in place.
has_video_extension(filename) ==
    LET dot == strrchr(filename, ".") IN
    IF dot = 0
    THEN [ret |-> FALSE, d_name |-> filename]
    ELSE LET lowered == [i \in 1..Len(filename) |->
                            IF i > dot THEN tolower(filename[i]) ELSE filename[i]]
             file_extension == SubSeq(lowered, dot + 1, Len(lowered))
         IN  [ret |-> \E i \in 1..NUM_OF_VIDEO_EXTENSIONS :
                          strcmp(file_extension, video_extensions[i]) = 0,
              d_name |-> lowered]

\* the blocks files_cleanup() frees: names[i], paths[i] for i < count, then both arrays
CleanupBlocks(f) ==
    {<<"name", i>> : i \in 1..f.count} \cup {<<"path", i>> : i \in 1..f.count}
        \cup {<<"names", 0>>, <<"paths", 0>>}

\* files_cleanup, lines 43-54; free(NULL) does nothing
files_cleanup(h, f) == free(h, CleanupBlocks(f) \ h.null)

\* library_init, lines 113-147: the two arrays, count = 0, opendir.
\* fail names the call that fails, "none" when all succeed.
library_init_open(fail) ==
    /\ pc = "library_init"
    /\ buffer_size' = FILES_MAX
    /\ IF fail = "malloc_names"
       THEN /\ pc' = "exit_failure"
            /\ UNCHANGED <<files, heap, d_pos>>
       ELSE IF fail = "malloc_paths"
       THEN /\ pc' = "exit_failure"
            /\ heap' = alloc(heap, {<<"names", 0>>})
            /\ UNCHANGED <<files, d_pos>>
       ELSE IF fail = "opendir"
       THEN /\ pc' = "exit_failure"
            /\ files' = [names |-> <<>>, paths |-> <<>>, count |-> 0]
            /\ heap' = free(alloc(heap, {<<"names", 0>>, <<"paths", 0>>}),
                            {<<"names", 0>>, <<"paths", 0>>})
            /\ UNCHANGED d_pos
       ELSE /\ pc' = "scan"
            /\ files' = [names |-> <<>>, paths |-> <<>>, count |-> 0]
            /\ heap' = alloc(heap, {<<"names", 0>>, <<"paths", 0>>, <<"dir", 0>>})
            /\ d_pos' = 1
    /\ boot' = IF pc' = "exit_failure" THEN Append(boot, [call |-> "library_init", ret |-> -1])
               ELSE IF pc' = "mounted" THEN Append(boot, [call |-> "library_init", ret |-> 0])
               ELSE boot
    /\ UNCHANGED <<dir, origin>>
    /\ UNCHANGED serve_vars

\* library_init, lines 151-222: one iteration of the readdir loop.
library_init_readdir(fail) ==
    /\ pc = "scan"
    /\ d_pos <= Len(dir)
    /\ LET dp == dir[d_pos]
           hv == has_video_extension(dp.d_name)
           n  == files.count + 1
       IN
       IF dp.d_type # "DT_REG" \/ ~hv.ret
       THEN /\ fail = "none"
            /\ d_pos' = d_pos + 1
            /\ UNCHANGED <<pc, boot, files, buffer_size, origin, heap>>
       ELSE IF fail = "strdup"
       THEN \* lines 162-166: return -1, nothing released
            /\ pc' = "exit_failure"
            /\ UNCHANGED <<d_pos, files, buffer_size, origin, heap>>
       ELSE IF fail = "malloc_path"
       THEN \* lines 170-181: the new name, the stored entries and both arrays
            /\ pc' = "exit_failure"
            /\ heap' = free(alloc(heap, {<<"name", n>>}),
                            {<<"name", n>>} \cup CleanupBlocks(files))
            /\ UNCHANGED <<d_pos, files, buffer_size, origin>>
       ELSE LET stored == [names |-> Append(files.names, hv.d_name),
                           paths |-> Append(files.paths, library_path \o hv.d_name),
                           count |-> n]
                h1 == alloc(heap, {<<"name", n>>, <<"path", n>>})
            IN
            IF n # buffer_size
            THEN /\ fail = "none"
                 /\ files' = stored
                 /\ heap' = h1
                 /\ origin' = Append(origin, d_pos)
                 /\ d_pos' = d_pos + 1
                 /\ UNCHANGED <<pc, boot, buffer_size>>
            ELSE \* lines 194-220: grow both arrays by FILES_MAX
                 /\ fail \in {"none", "realloc_names", "realloc_paths"}
                 /\ buffer_size' = buffer_size + FILES_MAX
                 /\ origin' = Append(origin, d_pos)
                 /\ IF fail = "none"
                    THEN /\ files' = [stored EXCEPT
                                         !.names = realloc(@, buffer_size + FILES_MAX),
                                         !.paths = realloc(@, buffer_size + FILES_MAX)]
                         /\ heap' = h1
                         /\ d_pos' = d_pos + 1
                         /\ pc' = pc
                    ELSE /\ files' = stored
                         /\ heap' = files_cleanup(h1, stored)
                         /\ pc' = "exit_failure"
                         /\ d_pos' = d_pos
    /\ boot' = IF pc' = "exit_failure" THEN Append(boot, [call |-> "library_init", ret |-> -1])
               ELSE IF pc' = "mounted" THEN Append(boot, [call |-> "library_init", ret |-> 0])
               ELSE boot
    /\ UNCHANGED dir
    /\ UNCHANGED serve_vars

\* library_init, lines 228-235: readdir returned NULL; closedir and return.
library_init_close(fail) ==
    /\ pc = "scan"
    /\ d_pos > Len(dir)
    /\ IF fail = "closedir"
       THEN /\ pc' = "exit_failure"
            /\ heap' = files_cleanup(heap, files)
       ELSE /\ pc' = "mounted"
            /\ heap' = free(heap, {<<"dir", 0>>})
    /\ boot' = IF pc' = "exit_failure" THEN Append(boot, [call |-> "library_init", ret |-> -1])
               ELSE IF pc' = "mounted" THEN Append(boot, [call |-> "library_init", ret |-> 0])
               ELSE boot
    /\ UNCHANGED <<dir, d_pos, files, buffer_size, origin>>
    /\ UNCHANGED serve_vars

-----------------------------------------------------------------------------
(* operations.c *)

\* The linear search of get_file_status (62-64), fs_read (379-382) and
\* fs_open (479-480): the first i with strcmp(path + 1, names[i]) == 0,
\* 0 when the loop ends without a match.
Lookup(f, path) ==
    LET name == Tail(path)
        hits == {i \in 1..f.count : strcmp(name, f.names[i]) = 0}
    IN  IF hits = {} THEN 0 ELSE CHOOSE i \in hits : \A j \in hits : i <= j

\* The file a path names on disk: the index in dir of the linked entry whose
\* name follows library_path in the path, 0 when there is none (ENOENT).
Resolve(path) ==
    LET hits == {j \in 1..Len(dir) :
                    disk[j].linked /\ path = library_path \o dir[j].d_name}
    IN  IF hits = {} THEN 0 ELSE CHOOSE j \in hits : TRUE

\* stat(2): -1 when the path names nothing, else 0 and st_size
stat(path) ==
    LET j == Resolve(path) IN
    IF j = 0 THEN [ret |-> -1, st_size |-> 0]
             ELSE [ret |-> 0, st_size |-> disk[j].size]

\* get_file_status, lines 58-81
get_file_status(path) ==
    LET i == Lookup(files, path) IN
    IF i = 0
    THEN [ret |-> -ENOENT, st_size |-> 0]
    ELSE LET result == stat(files.paths[i]) IN
         IF result.ret = -1 THEN [ret |-> result.ret, st_size |-> 0]
                            ELSE [ret |-> 0, st_size |-> result.st_size]

\* fs_getattr, lines 93-149
fs_getattr(path, time_ok) ==
    /\ pc = "mounted" /\ res = NoRes
    /\ LET req == [op |-> "getattr", path |-> path, time_ok |-> time_ok]
           dirst == [st_mode |-> [fmt |-> "S_IFDIR", perm |-> dir_permissions],
                     st_nlink |-> 2, st_size |-> 0]
           regst == [st_mode |-> [fmt |-> "S_IFREG", perm |-> file_permissions],
                     st_nlink |-> 1, st_size |-> 0]
           fstat == get_file_status(path)
       IN
       res' = IF ~time_ok
              THEN [req |-> req, ret |-> -EFAULT,
                    st |-> [st_mode |-> [fmt |-> "none", perm |-> 0],
                            st_nlink |-> 0, st_size |-> 0]]
              ELSE IF strcmp(path, <<"/">>) = 0
              THEN [req |-> req, ret |-> 0, st |-> dirst]
              ELSE IF fstat.ret # 0
              THEN [req |-> req, ret |-> fstat.ret, st |-> regst]
              ELSE [req |-> req, ret |-> 0,
                    st |-> [regst EXCEPT !.st_size = fstat.st_size]]
    /\ UNCHANGED <<pc, boot, disk, fds, sessions, last_pid, inserts, th>>
    /\ UNCHANGED catalog_vars

\* fs_readdir listing the names by counting files->count down to 0
fs_readdir_draining(path) ==
    /\ pc = "mounted" /\ res = NoRes
    /\ res' = [req |-> [op |-> "readdir", path |-> path],
               ret |-> 0,
               listing |-> << <<".">>, <<".", ".">> >> \o
                           (IF strcmp(path, <<"/">>) = 0
                            THEN [i \in 1..files.count |-> files.names[i]]
                            ELSE <<>>)]
    /\ files' = IF strcmp(path, <<"/">>) = 0 THEN [files EXCEPT !.count = 0] ELSE files
    /\ UNCHANGED <<pc, boot, disk, fds, sessions, last_pid, inserts, th>>
    /\ UNCHANGED <<dir, d_pos, buffer_size, origin, heap>>

\* fs_readdir, lines 168-197: the names handed to filler, in order
fs_readdir(path) ==
    /\ pc = "mounted" /\ res = NoRes
    /\ res' = [req |-> [op |-> "readdir", path |-> path],
               ret |-> 0,
               listing |-> << <<".">>, <<".", ".">> >> \o
                           (IF strcmp(path, <<"/">>) = 0
                            THEN [i \in 1..files.count |-> files.names[i]]
                            ELSE <<>>)]
    /\ UNCHANGED <<pc, boot, disk, fds, sessions, last_pid, inserts, th>>
    /\ UNCHANGED catalog_vars

\* open(2), O_RDONLY: the lowest free descriptor on the file the path names
lowest_fd == CHOOSE fd \in 3..(3 + Cardinality(DOMAIN fds)) :
                 /\ fd \notin DOMAIN fds
                 /\ \A g \in 3..(fd - 1) : g \in DOMAIN fds

\* fs_open, lines 468-500
fs_open(path, malloc_ok) ==
    /\ pc = "mounted" /\ res = NoRes
    /\ Cardinality(DOMAIN fds) < MaxFds
    /\ LET req == [op |-> "open", path |-> path]
           i == Lookup(files, path)
           j == IF i = 0 THEN 0 ELSE Resolve(library_path \o files.names[i])
       IN
       IF ~malloc_ok
       THEN /\ res' = [req |-> req, ret |-> -ENOMEM, fh |-> 0]
            /\ UNCHANGED <<fds, sessions>>
       ELSE IF i = 0
       THEN /\ res' = [req |-> req, ret |-> -ENOENT, fh |-> 0]
            /\ UNCHANGED <<fds, sessions>>
       ELSE IF j = 0
       THEN /\ res' = [req |-> req, ret |-> -ENOENT, fh |-> 0]
            /\ UNCHANGED <<fds, sessions>>
       ELSE /\ res' = [req |-> req, ret |-> 0, fh |-> lowest_fd]
            /\ fds' = (lowest_fd :> j) @@ fds
            /\ sessions' = sessions \cup {lowest_fd}
    /\ UNCHANGED <<pc, boot, disk, last_pid, inserts, th>>
    /\ UNCHANGED catalog_vars

\* get_proc_name handing back an empty name when /proc/<pid>/comm cannot be read
get_proc_name_empty_on_failure(proc) ==
    IF ~proc.readable
    THEN [null |-> FALSE, name |-> <<>>]
    ELSE LET nl == {k \in 1..Len(proc.comm) : proc.comm[k] = "\n"} IN
         [null |-> FALSE,
          name |-> SubSeq(proc.comm, 1, (CHOOSE k \in nl : \A m \in nl : k <= m) - 1)]

\* get_proc_name, lines 212-279.  proc is /proc/<pid>/comm as the request
\* finds it: readable or not (any of the mallocs, open, read, close failing),
\* and its contents.  read() takes at most proc_comm_len bytes and the name
\* ends where strcspn finds the newline.
get_proc_name(proc) ==
    IF ~proc.readable
    THEN [null |-> TRUE, name |-> <<>>]
    ELSE LET buf == SubSeq(proc.comm, 1,
                           IF Len(proc.comm) < proc_comm_len THEN Len(proc.comm)
                                                             ELSE proc_comm_len)
             nl  == {k \in 1..Len(buf) : buf[k] = "\n"}
             end == IF nl = {} THEN Len(buf)
                    ELSE (CHOOSE k \in nl : \A m \in nl : k <= m) - 1
         IN  [null |-> FALSE, name |-> SubSeq(buf, 1, end)]

\* strchr(s, ch): index of the first ch in s, 0 for NULL
strchr(s, ch) ==
    IF \E i \in 1..Len(s) : s[i] = ch
    THEN CHOOSE i \in 1..Len(s) : s[i] = ch /\ \A j \in 1..(i-1) : s[j] # ch
    ELSE 0

\* db_insert cutting the title at its first '.'
db_insert_first_dot(path, db_ok) ==
    LET title == Tail(path)
        extension == strchr(title, ".")
    IN  IF extension = 0
        THEN [ret |-> -1, title |-> <<>>, executed |-> FALSE]
        ELSE [ret |-> IF db_ok THEN 0 ELSE -1,
              title |-> SubSeq(title, 1, extension - 1), executed |-> TRUE]

\* db_insert (database.c, lines 51-116): the title is the path after its
\* leading slash, cut at its last '.'; -1 when there is no '.' or when
\* sqlite3_exec fails (db_ok false), else 0.
db_insert(path, db_ok) ==
    LET title == Tail(path)
        extension == strrchr(title, ".")
    IN  IF extension = 0
        THEN [ret |-> -1, title |-> <<>>, executed |-> FALSE]
        ELSE [ret |-> IF db_ok THEN 0 ELSE -1,
              title |-> SubSeq(title, 1, extension - 1), executed |-> TRUE]

\* what the history keeps of a db_insert call made for pid
InsertCall(path, pid, ins) ==
    [path |-> path, pid |-> pid, title |-> ins.title, executed |-> ins.executed,
     ret |-> ins.ret]

\* logging_handle's test at line 336 without the comparison with last_pid
log_every_read(caller_is_media_player, current_pid, stored_pid) ==
    caller_is_media_player = 1

\* logging_handle's test at line 336 without the allow-list
log_any_process(caller_is_media_player, current_pid, stored_pid) ==
    current_pid # stored_pid

\* logging_handle, line 336
is_new_viewing(caller_is_media_player, current_pid, stored_pid) ==
    caller_is_media_player = 1 /\ current_pid # stored_pid

\* logging_handle, lines 317-324
caller_is_media_player(proc_name) ==
    IF \E i \in 1..NUM_OF_MEDIA_PLAYERS : strcmp(proc_name, media_player_comm[i]) = 0
    THEN 1 ELSE 0

\* logging_handle suppressing a repeat only when the path is also the one
\* last logged
logging_handle_per_path(path, pid, proc, db_ok) ==
    LET proc_name == get_proc_name(proc)
        ins == db_insert(path, db_ok)
        repeat == /\ pid = last_pid
                  /\ inserts # <<>>
                  /\ inserts[Len(inserts)].path = path
    IN  IF proc_name.null
        THEN [ret |-> -EIO, last_pid |-> last_pid, inserts |-> inserts]
        ELSE IF caller_is_media_player(proc_name.name) = 1 /\ ~repeat
        THEN [ret |-> IF ins.ret = -1 THEN -EFAULT ELSE 0,
              last_pid |-> pid,
              inserts |-> Append(inserts, InsertCall(path, pid, ins))]
        ELSE [ret |-> 0, last_pid |-> last_pid, inserts |-> inserts]

\* logging_handle, lines 304-344: the return value, last_pid afterwards and
\* the db_insert calls afterwards
logging_handle(path, pid, proc, db_ok) ==
    LET proc_name == get_proc_name(proc)
        ins == db_insert(path, db_ok)
    IN  IF proc_name.null
        THEN [ret |-> -EIO, last_pid |-> last_pid, inserts |-> inserts]
        ELSE IF is_new_viewing(caller_is_media_player(proc_name.name), pid, last_pid)
        THEN [ret |-> IF ins.ret = -1 THEN -EFAULT ELSE 0,
              last_pid |-> pid,
              inserts |-> Append(inserts, InsertCall(path, pid, ins))]
        ELSE [ret |-> 0, last_pid |-> last_pid, inserts |-> inserts]

Min(a, b) == IF a < b THEN a ELSE b

\* the loop with a single pread: whatever the first call returns is the count
RECURSIVE pread_once(_, _, _, _, _, _)
pread_once(L, size, offset, bytes_read, k, io) ==
    IF k > 1 \/ bytes_read >= size
    THEN [bytes_read |-> bytes_read, result |-> 1]
    ELSE IF io.fail_at = k \/ L < 0
    THEN [bytes_read |-> bytes_read, result |-> -1]
    ELSE LET got == Min(io.short, Min(size - bytes_read, L - (offset + bytes_read))) IN
         IF got <= 0
         THEN [bytes_read |-> bytes_read, result |-> 0]
         ELSE pread_once(L, size, offset, bytes_read + got, k + 1, io)

\* fs_read, lines 418-426: pread until size bytes are in the buffer or a
\* call returns 0 or -1.  L is the length of the open file (-1: not a
\* regular file, every pread fails); the k-th pread fails when
\* io.fail_at = k and otherwise returns at most io.short bytes.
RECURSIVE pread_loop(_, _, _, _, _, _)
pread_loop(L, size, offset, bytes_read, k, io) ==
    IF bytes_read >= size
    THEN [bytes_read |-> bytes_read, result |-> 1]
    ELSE IF io.fail_at = k \/ L < 0
    THEN [bytes_read |-> bytes_read, result |-> -1]
    ELSE LET got == Min(io.short, Min(size - bytes_read, L - (offset + bytes_read))) IN
         IF got <= 0
         THEN [bytes_read |-> bytes_read, result |-> 0]
         ELSE pread_loop(L, size, offset, bytes_read + got, k + 1, io)

\* the length pread sees through descriptor fd of table t
FileLength(t, fd) == IF dir[t[fd]].d_type = "DT_REG" THEN disk[t[fd]].size ELSE -1

\* fs_read, lines 375-451, after the watch check.  fi = 0 stands for
\* fi == NULL, otherwise fi is fi->fh.  io.fail names the call that fails
\* besides pread, "none" if none.  The result: the return value, where the
\* function returned, and the descriptor table afterwards.
fs_read_file(path, fi, size, offset, io) ==
    LET i   == Lookup(files, path)
        j   == IF i = 0 THEN 0 ELSE Resolve(library_path \o files.names[i])
        fd  == IF fi = 0 THEN lowest_fd ELSE fi
        tab == IF fi = 0 /\ j # 0 THEN (fd :> j) @@ fds ELSE fds
        rd  == pread_loop(FileLength(tab, fd), size, offset, 0, 1, io)
    IN  IF i = 0 THEN [ret |-> -ENOENT, at |-> "lookup", fds |-> fds]
        ELSE IF io.fail = "malloc" THEN [ret |-> -ENOMEM, at |-> "malloc", fds |-> fds]
        ELSE IF fi = 0 /\ j = 0 THEN [ret |-> -ENOENT, at |-> "open", fds |-> fds]
        ELSE IF rd.result = -1 THEN [ret |-> -EIO, at |-> "pread", fds |-> tab]
        ELSE IF fi = 0 /\ io.fail = "close" THEN [ret |-> -EIO, at |-> "close", fds |-> fds]
        ELSE [ret |-> rd.bytes_read, at |-> "return", fds |-> fds]

\* fs_read, lines 364-452: the watch check, then the file
fs_read(path, fi, size, offset, pid, proc, db_ok, io) ==
    /\ pc = "mounted" /\ res = NoRes
    /\ fi = 0 => Cardinality(DOMAIN fds) < MaxFds
    /\ LET log == logging_handle(path, pid, proc, db_ok)
           rd  == fs_read_file(path, fi, size, offset, io)
           req == [op |-> "read", path |-> path, fi |-> fi, size |-> size,
                   offset |-> offset, pid |-> pid, proc |-> proc, io |-> io]
       IN
       /\ Len(log.inserts) <= MaxInserts
       /\ last_pid' = log.last_pid
       /\ inserts' = log.inserts
       /\ IF log.ret # 0
          THEN /\ res' = [req |-> req, ret |-> log.ret, at |-> "log"]
               /\ fds' = fds
          ELSE /\ res' = [req |-> req, ret |-> rd.ret, at |-> rd.at]
               /\ fds' = rd.fds
    /\ UNCHANGED <<pc, boot, disk, sessions, th>>
    /\ UNCHANGED catalog_vars

\* no injected failure, no short transfer
io_none == [fail |-> "none", fail_at |-> 0, short |-> MaxSize]

\* Multi-threaded dispatch (fuse_main's default, main.c line 59): each worker
\* thread runs fs_read for its own request.  last_pid is a plain static, so
\* the threads' loads and stores of it interleave; a thread's position is
\* th[t].at.

\* a worker thread takes a Read request
thread_fs_read(t, path, pid, proc, db_ok) ==
    /\ pc = "mounted"
    /\ t \notin DOMAIN th
    /\ th' = (t :> [at |-> "get_proc_name", path |-> path, pid |-> pid, proc |-> proc,
                    db_ok |-> db_ok, caller_is_media_player |-> 0, ret |-> 0]) @@ th
    /\ UNCHANGED <<pc, boot, disk, fds, sessions, last_pid, inserts, res>>
    /\ UNCHANGED catalog_vars

\* logging_handle, lines 311-329
thread_get_proc_name(t) ==
    /\ t \in DOMAIN th /\ th[t].at = "get_proc_name"
    /\ LET proc_name == get_proc_name(th[t].proc) IN
       th' = IF proc_name.null
             THEN [th EXCEPT ![t].at = "returned", ![t].ret = -EIO]
             ELSE [th EXCEPT ![t].at = "compare",
                             ![t].caller_is_media_player =
                                 caller_is_media_player(proc_name.name)]
    /\ UNCHANGED <<pc, boot, disk, fds, sessions, last_pid, inserts, res>>
    /\ UNCHANGED catalog_vars

\* logging_handle, line 336: last_pid is loaded and compared
thread_compare(t) ==
    /\ t \in DOMAIN th /\ th[t].at = "compare"
    /\ th' = IF is_new_viewing(th[t].caller_is_media_player, th[t].pid, last_pid)
             THEN [th EXCEPT ![t].at = "store"]
             ELSE [th EXCEPT ![t].at = "read_file"]
    /\ UNCHANGED <<pc, boot, disk, fds, sessions, last_pid, inserts, res>>
    /\ UNCHANGED catalog_vars

\* logging_handle, line 337: last_pid is stored
thread_store(t) ==
    /\ t \in DOMAIN th /\ th[t].at = "store"
    /\ last_pid' = th[t].pid
    /\ th' = [th EXCEPT ![t].at = "db_insert"]
    /\ UNCHANGED <<pc, boot, disk, fds, sessions, inserts, res>>
    /\ UNCHANGED catalog_vars

\* logging_handle, lines 338-340
thread_db_insert(t) ==
    /\ t \in DOMAIN th /\ th[t].at = "db_insert"
    /\ LET ins == db_insert(th[t].path, th[t].db_ok) IN
       /\ inserts' = Append(inserts, InsertCall(th[t].path, th[t].pid, ins))
       /\ th' = IF ins.ret = -1
                THEN [th EXCEPT ![t].at = "returned", ![t].ret = -EFAULT]
                ELSE [th EXCEPT ![t].at = "read_file"]
    /\ UNCHANGED <<pc, boot, disk, fds, sessions, last_pid, res>>
    /\ UNCHANGED catalog_vars

\* fs_read, lines 375-451, one byte at offset 0 with no handle
thread_read_file(t) ==
    /\ t \in DOMAIN th /\ th[t].at = "read_file"
    /\ LET rd == fs_read_file(th[t].path, 0, 1, 0, io_none) IN
       th' = [th EXCEPT ![t].at = "returned", ![t].ret = rd.ret]
    /\ UNCHANGED <<pc, boot, disk, fds, sessions, last_pid, inserts, res>>
    /\ UNCHANGED catalog_vars

\* The host layer ends a file session.  The operations table (lines 507-510)
\* has no release callback, so nothing of this program runs.
release(fh) ==
    /\ pc = "mounted" /\ res = NoRes
    /\ fh \in sessions
    /\ sessions' = sessions \ {fh}
    /\ UNCHANGED <<pc, boot, disk, fds, last_pid, inserts, res, th>>
    /\ UNCHANGED catalog_vars

\* fuse_main (main.c, line 59) dispatches one request at a time: it hands
\* the callback's result back and takes the next request.
reply ==
    /\ pc = "mounted" /\ res # NoRes
    /\ res' = NoRes
    /\ UNCHANGED <<pc, boot, disk, fds, sessions, last_pid, inserts, th>>
    /\ UNCHANGED catalog_vars

\* The files behind the mount change while it is served: a catalogued file
\* is truncated or extended to n bytes ...
truncate(j, n) ==
    /\ pc = "mounted" /\ res = NoRes
    /\ j \in 1..Len(dir) /\ \E k \in 1..Len(origin) : origin[k] = j
    /\ disk[j].linked /\ disk[j].size # n
    /\ disk' = [disk EXCEPT ![j].size = n]
    /\ UNCHANGED <<pc, boot, fds, sessions, last_pid, inserts, res, th>>
    /\ UNCHANGED catalog_vars

\* ... or removed from the library directory.
unlink(j) ==
    /\ pc = "mounted" /\ res = NoRes
    /\ j \in 1..Len(dir) /\ \E k \in 1..Len(origin) : origin[k] = j
    /\ disk[j].linked
    /\ disk' = [disk EXCEPT ![j].linked = FALSE]
    /\ UNCHANGED <<pc, boot, fds, sessions, last_pid, inserts, res, th>>
    /\ UNCHANGED catalog_vars

-----------------------------------------------------------------------------
(* main.c *)

\* main, lines 36-38
main_load_config(ok) ==
    /\ pc = "load_config"
    /\ pc' = IF ok THEN "db_init" ELSE "exit_failure"
    /\ boot' = Append(boot, [call |-> "load_config", ret |-> IF ok THEN 0 ELSE -1])
    /\ UNCHANGED catalog_vars
    /\ UNCHANGED serve_vars

\* main going on to library_init whatever db_init returned
main_db_init_unchecked(ok) ==
    /\ pc = "db_init"
    /\ pc' = "library_init"
    /\ boot' = Append(boot, [call |-> "db_init", ret |-> IF ok THEN 0 ELSE -1])
    /\ UNCHANGED catalog_vars
    /\ UNCHANGED serve_vars

\* main, lines 41-43
main_db_init(ok) ==
    /\ pc = "db_init"
    /\ pc' = IF ok THEN "library_init" ELSE "exit_failure"
    /\ boot' = Append(boot, [call |-> "db_init", ret |-> IF ok THEN 0 ELSE -1])
    /\ UNCHANGED catalog_vars
    /\ UNCHANGED serve_vars

\* main, lines 49-51: library_init() runs to its return
main_library_init ==
    \/ \E fail \in {"none", "malloc_names", "malloc_paths", "opendir"} :
           library_init_open(fail)
    \/ \E fail \in {"none", "strdup", "malloc_path", "realloc_names", "realloc_paths"} :
           library_init_readdir(fail)
    \/ \E fail \in {"none", "closedir"} : library_init_close(fail)

\* main, lines 59-67: fuse_main returns (unmount), files_cleanup,
\* db_cleanup, exit
main_unmount ==
    /\ pc = "mounted" /\ res = NoRes
    /\ pc' = "exit"
    /\ heap' = files_cleanup(heap, files)
    /\ UNCHANGED <<boot, dir, d_pos, files, buffer_size, origin>>
    /\ UNCHANGED serve_vars

\* files_cleanup() called once after library_init returned -1.  main itself
\* exits at line 50 without this call; it is the other call the interface
\* of video.h leaves to a caller.
files_cleanup_after_failure ==
    /\ pc = "exit_failure"
    /\ Len(boot) = 3
    /\ pc' = "torn_down"
    /\ heap' = files_cleanup(heap, files)
    /\ UNCHANGED <<boot, dir, d_pos, files, buffer_size, origin>>
    /\ UNCHANGED serve_vars

Startup ==
    \/ \E ok \in BOOLEAN : main_load_config(ok)
    \/ \E ok \in BOOLEAN : main_db_init(ok)
    \/ main_library_init

-----------------------------------------------------------------------------
(* The library directories the model starts from *)

n_a_mp4     == <<"a", ".", "m", "p", "4">>
n_a_MP4     == <<"a", ".", "M", "P", "4">>
n_B_MKV     == <<"B", ".", "M", "K", "V">>
n_notes_txt == <<"n", "o", "t", "e", "s", ".", "t", "x", "t">>
n_no_ext    == <<"n", "o", "_", "e", "x", "t">>
n_x_y_webm  == <<"x", ".", "y", ".", "W", "e", "b", "m">>
n_sub_avi   == <<"s", "u", "b", ".", "a", "v", "i">>

Pool ==
    << [d_name |-> n_a_mp4,     d_type |-> "DT_REG"],
       [d_name |-> n_B_MKV,     d_type |-> "DT_REG"],
       [d_name |-> n_notes_txt, d_type |-> "DT_REG"],
       [d_name |-> n_no_ext,    d_type |-> "DT_REG"],
       [d_name |-> n_a_MP4,     d_type |-> "DT_REG"],
       [d_name |-> n_x_y_webm,  d_type |-> "DT_REG"],
       [d_name |-> n_sub_avi,   d_type |-> "DT_DIR"] >>

\* every enumeration of at most MaxDir distinct entries of Pool
SmallDirs ==
    LET Idx == UNION {[1..n -> 1..Len(Pool)] : n \in 0..MaxDir}
        Inj == {s \in Idx : \A i, j \in DOMAIN s : i # j => s[i] # s[j]}
    IN  {[i \in DOMAIN s |-> Pool[s[i]]] : s \in Inj}

Digits == <<"0", "1", "2", "3", "4", "5", "6", "7", "8", "9">>

\* the i-th generated file name: f<ddd>.mp4 or f<ddd>.MKV
BigName(i) ==
    <<"f", Digits[((i \div 100) % 10) + 1], Digits[((i \div 10) % 10) + 1],
      Digits[(i % 10) + 1], ".">>
        \o (IF i % 2 = 0 THEN <<"M", "K", "V">> ELSE <<"m", "p", "4">>)

BigDir(n) == [i \in 1..n |-> [d_name |-> BigName(i), d_type |-> "DT_REG"]]

BigDirs == {BigDir(n) : n \in (MaxDir + 1)..MaxBig}

\* the directory of the specification's example
ExampleDir == << Pool[1], Pool[2], Pool[3], Pool[4] >>

InitWith(dirs) ==
    /\ pc = "load_config"
    /\ boot = <<>>
    /\ dir \in dirs
    /\ d_pos = 0
    /\ files = [names |-> <<>>, paths |-> <<>>, count |-> 0]
    /\ buffer_size = 0
    /\ origin = <<>>
    /\ heap = [live |-> {}, double_free |-> FALSE,
               null |-> {<<"names", 0>>, <<"paths", 0>>}]
    /\ disk = [i \in 1..Len(dir) |-> [linked |-> TRUE, size |-> i % (MaxSize + 1)]]
    /\ fds = <<>>
    /\ sessions = {}
    /\ last_pid = -1
    /\ inserts = <<>>
    /\ res = NoRes
    /\ th = <<>>

\* The catalog alone: every small directory and every generated one.
InitBuild == InitWith(SmallDirs \cup BigDirs)

NextBuild == Startup

SpecBuild == InitBuild /\ [][NextBuild]_vars

\* The catalog from Build to Teardown.
NextTeardown == Startup \/ main_unmount \/ files_cleanup_after_failure

SpecTeardown == InitBuild /\ [][NextTeardown]_vars

-----------------------------------------------------------------------------
(* The dispatcher: single-threaded dispatch of the four callbacks over a   *)
(* few directories, the backing files changing underneath.                 *)

p_root    == <<"/">>
p_missing == <<"/", "m", "i", "s", "s", "i", "n", "g">>

\* the virtual paths requests are made for: the root, every stored name,
\* every on-disk name, and a name that is neither
Paths ==
    {p_root, p_missing}
        \cup {p_root \o files.names[i] : i \in 1..files.count}
        \cup {p_root \o dir[j].d_name : j \in 1..Len(dir)}

comm_cat   == <<"c", "a", "t", "\n">>
comm_demux == <<"d", "e", "m", "u", "x", "\n">>
comm_vlc   == <<"v", "l", "c", ":", "d", "i", "s", "k", "$", "0", "\n">>
comm_long  == <<"d", "e", "m", "u", "x", "_", "w", "o", "r", "k", "e", "r", "_", "0", "1", "\n">>

proc_cat == [readable |-> TRUE, comm |-> comm_cat]


OpsDirs == {ExampleDir, << Pool[1], Pool[5] >>, << Pool[7], Pool[6] >>}

Init == InitWith(OpsDirs)

Getattr == \E path \in Paths, time_ok \in BOOLEAN : fs_getattr(path, time_ok)

Readdir == \E path \in Paths : fs_readdir(path)

Open == \E path \in Paths, malloc_ok \in BOOLEAN : fs_open(path, malloc_ok)

Release == \E fh \in sessions : release(fh)

PlainRead ==
    \E path \in Paths, fi \in {0} \cup sessions :
        fs_read(path, fi, 1, 0, 101, proc_cat, TRUE, io_none)

DiskChange ==
    \/ \E j \in 1..Len(dir), n \in 0..MaxSize : truncate(j, n)
    \/ \E j \in 1..Len(dir) : unlink(j)

Next ==
    Startup \/ Getattr \/ Readdir \/ Open \/ PlainRead \/ reply \/ Release \/ DiskChange

Spec == Init /\ [][Next]_vars

-----------------------------------------------------------------------------
(* Reads: every size, offset, short-read pattern and failing call.         *)

ReadDirs == {<< Pool[1], Pool[3], Pool[6] >>}

InitRead == InitWith(ReadDirs)

\* no call fails and pread returns at most short bytes at a time; or malloc
\* or close fails; or the k-th pread fails after one-byte reads
IOs ==
    {[fail |-> "none", fail_at |-> 0, short |-> n] : n \in 1..MaxSize}
        \cup {[fail |-> f, fail_at |-> 0, short |-> MaxSize] : f \in {"malloc", "close"}}
        \cup {[fail |-> "none", fail_at |-> k, short |-> 1] : k \in 1..MaxSize}

Read ==
    \E path \in Paths, fi \in {0} \cup sessions, size \in 1..MaxSize,
       offset \in 0..(MaxSize + 1), io \in IOs :
        fs_read(path, fi, size, offset, 101, proc_cat, TRUE, io)

NextRead == Startup \/ Open \/ Read \/ reply \/ Release \/ DiskChange

SpecRead == InitRead /\ [][NextRead]_vars

-----------------------------------------------------------------------------
(* The watch check: reads by several processes, recognized or not, with    *)
(* /proc and the database failing or not.                                  *)

n_x_mp4 == <<"x", ".", "m", "p", "4">>
n_y_mp4 == <<"y", ".", "m", "p", "4">>
n_x_y_mp4 == <<"x", ".", "y", ".", "m", "p", "4">>
p_noext == <<"/", "n", "o", "e", "x", "t">>
p_z_mp4 == <<"/", "z", ".", "m", "p", "4">>

WatchDirs == {<< [d_name |-> n_x_mp4, d_type |-> "DT_REG"],
                 [d_name |-> n_y_mp4, d_type |-> "DT_REG"],
                 [d_name |-> n_x_y_mp4, d_type |-> "DT_REG"] >>}

InitWatch == InitWith(WatchDirs)

\* process ids of the callers
Pids == {101, 102}

\* /proc/<pid>/comm as a request may find it
Procs ==
    {[readable |-> TRUE, comm |-> c] : c \in {comm_demux, comm_vlc, comm_cat, comm_long}}
        \cup {[readable |-> FALSE, comm |-> <<>>]}

WatchPaths ==
    {p_root \o n_x_mp4, p_root \o n_y_mp4, p_root \o n_x_y_mp4, p_noext, p_z_mp4}

WatchRead ==
    \E path \in WatchPaths, pid \in Pids, proc \in Procs, db_ok \in BOOLEAN :
        fs_read(path, 0, 1, 0, pid, proc, db_ok, io_none)

NextWatch == Startup \/ WatchRead \/ reply

SpecWatch == InitWatch /\ [][NextWatch]_vars

-----------------------------------------------------------------------------
(* Concurrent reads: NumThreads worker threads, one Read each.             *)

Threads == 1..NumThreads

ConcProcs == {[readable |-> TRUE, comm |-> c] : c \in {comm_demux, comm_cat}}

ThreadRead ==
    \E t \in Threads, path \in {p_root \o n_x_mp4, p_root \o n_y_mp4},
       pid \in Pids, proc \in ConcProcs :
        thread_fs_read(t, path, pid, proc, TRUE)

ThreadStep ==
    \E t \in Threads :
        \/ thread_get_proc_name(t)
        \/ thread_compare(t)
        \/ thread_store(t)
        \/ thread_db_insert(t)
        \/ thread_read_file(t)

NextConc == Startup \/ ThreadRead \/ ThreadStep

SpecConc == InitWatch /\ [][NextConc]_vars

-----------------------------------------------------------------------------
(* Catalog claims, checked under SpecBuild *)

LowerStr(s) == [i \in 1..Len(s) |-> tolower(s[i])]

Range(s) == {s[i] : i \in 1..Len(s)}

\* A directory entry the catalog must hold: a regular file whose suffix after
\* the final '.' is, case-insensitively, a recognized video extension.
IsVideoFile(e) ==
    /\ e.d_type = "DT_REG"
    /\ \E i \in 1..Len(e.d_name) : e.d_name[i] = "."
    /\ LET dot == CHOOSE i \in 1..Len(e.d_name) :
                     e.d_name[i] = "." /\ \A j \in (i+1)..Len(e.d_name) : e.d_name[j] # "."
       IN  LowerStr(SubSeq(e.d_name, dot + 1, Len(e.d_name))) \in Range(video_extensions)

\* the indices of the video files of directory d, in enumeration order
VideoIndices(d) == SelectSeq([i \in 1..Len(d) |-> i], LAMBDA i : IsVideoFile(d[i]))

\* C4: after Build the Catalog has exactly one entry per regular file with a
\* recognized extension (compared case-insensitively), in enumeration order,
\* and no entry for anything else.
C4_CatalogIsTheVideoFiles ==
    pc = "mounted" =>
        /\ files.count = Len(VideoIndices(dir))
        /\ Len(files.names) = files.count
        /\ origin = VideoIndices(dir)
        /\ \A k \in 1..files.count :
              LowerStr(files.names[k]) = LowerStr(dir[origin[k]].d_name)

C4_Witness ==
    /\ pc = "mounted"
    /\ dir = ExampleDir
    /\ files.count = 2
    /\ origin = <<1, 2>>

\* C5: every stored display name is the on-disk basename, character for
\* character, and every stored real path is the library path followed by it.
C5_NamesAsOnDisk ==
    pc = "mounted" =>
        \A k \in 1..files.count :
            /\ files.names[k] = dir[origin[k]].d_name
            /\ files.paths[k] = library_path \o dir[origin[k]].d_name

\* C6: no two Catalog entries have the same display name (the directory's
\* file names are pairwise distinct).
C6_DisplayNamesUnique ==
    pc = "mounted" =>
        \A i, j \in 1..files.count : i # j => files.names[i] # files.names[j]

\* C7: growth loses nothing.  While the scan runs, every entry already stored
\* stays where it is and unchanged and there is room for the next one; when
\* Build has succeeded, count is the number of accepted files and Lookup
\* finds every entry under its stored name.
C7_Stored ==
    pc = "mounted" =>
        /\ files.count = Len(VideoIndices(dir))
        /\ Len(files.names) = files.count /\ Len(files.paths) = files.count
        /\ \A k \in 1..files.count :
              LET i == Lookup(files, <<"/">> \o files.names[k]) IN
              /\ i # 0
              /\ files.names[i] = files.names[k]
              /\ files.paths[i] = files.paths[k]

C7_Kept ==
    (pc = "scan" /\ pc' \in {"scan", "mounted"}) =>
        /\ files'.count >= files.count
        /\ files'.count < buffer_size'
        /\ Len(files'.names) = files'.count /\ Len(files'.paths) = files'.count
        /\ \A k \in 1..files.count :
              files'.names[k] = files.names[k] /\ files'.paths[k] = files.paths[k]

C7_GrowthLosesNothing == [](C7_Stored) /\ [][C7_Kept]_vars

C7_Witness ==
    /\ pc = "mounted"
    /\ files.count = 2 * FILES_MAX + 1
    /\ buffer_size = 3 * FILES_MAX

\* C16: when library_init fails (opendir, or an allocation of the arrays, of
\* a name, of a path or of a growth step) it returns with everything it
\* allocated released and the directory stream closed: nothing is left
\* allocated.
C16_FailedBuildLeaksNothing ==
    (/\ pc = "exit_failure"
     /\ Len(boot) = 3
     /\ d_pos <= Len(dir)) =>
        heap.live = {}

\* C19: files_cleanup called once is safe.  After a successful Build it
\* releases every name, every path and both arrays, each of them once.  After
\* a failed Build that has already released its storage it releases nothing
\* again.  No block is freed twice.
C19_Step ==
    LET StorageReleased ==
            /\ heap.null = {}
            /\ heap.live \cap CleanupBlocks(files) = {}
    IN  /\ (pc = "mounted" /\ pc' = "exit") =>
               /\ CleanupBlocks(files) \subseteq heap.live
               /\ heap'.live = {}
               /\ ~heap'.double_free
        /\ (pc = "exit_failure" /\ pc' = "torn_down" /\ StorageReleased) =>
               /\ heap'.live = heap.live
               /\ ~heap'.double_free

C19_TeardownFreesOnce == [][C19_Step]_vars

-----------------------------------------------------------------------------
(* Dispatcher claims *)

Max(a, b) == IF a > b THEN a ELSE b

\* the catalog entries displayed under the name a virtual path gives
EntriesNamed(path) == {k \in 1..files.count : files.names[k] = Tail(path)}

\* C8: Attributes classifies every path.  "/" is a directory, 0755, two
\* links; a path naming a Catalog entry is a regular file, 0644, one link,
\* with the size its backing file has now (the file the entry was catalogued
\* from, while it is still there); anything else is ENOENT.
C8_AttributesClassifiesEveryPath ==
    (res.req.op = "getattr" /\ res.req.time_ok) =>
        LET path == res.req.path
            hits == EntriesNamed(path)
            k    == CHOOSE h \in hits : \A g \in hits : h <= g
        IN  IF path = p_root
            THEN /\ res.ret = 0
                 /\ res.st.st_mode = [fmt |-> "S_IFDIR", perm |-> 493]
                 /\ res.st.st_nlink = 2
            ELSE IF hits # {}
            THEN disk[origin[k]].linked =>
                    /\ res.ret = 0
                    /\ res.st.st_mode = [fmt |-> "S_IFREG", perm |-> 420]
                    /\ res.st.st_nlink = 1
                    /\ res.st.st_size = disk[origin[k]].size
            ELSE res.ret = -ENOENT

\* C9: ListDirectory succeeds for every path and yields '.', '..', and then,
\* for "/" only, every Catalog display name once, in Catalog order, with no
\* duplicates and no omissions.
C9_ListDirectory ==
    res.req.op = "readdir" =>
        /\ res.ret = 0
        /\ res.listing = << <<".">>, <<".", ".">> >> \o
                            (IF res.req.path = p_root THEN files.names ELSE <<>>)
        /\ \A i, j \in 1..Len(res.listing) : i # j => res.listing[i] # res.listing[j]

\* the file a finished read read from: the handle's, or the one it opened
FileRead(req) ==
    IF req.fi # 0 THEN fds[req.fi]
    ELSE Resolve(library_path \o files.names[Lookup(files, req.path)])

ReadLoopCount ==
    (/\ res.req.op = "read"
     /\ res.at \in {"pread", "return"}
     /\ res.req.io.fail_at = 0) =>
        LET L == disk[FileRead(res.req)].size IN
        /\ res.at = "return"
        /\ res.ret = Min(res.req.size, Max(0, L - res.req.offset))

-----------------------------------------------------------------------------
(* Watch claims, checked under SpecWatch *)

\* the caller's process name is on the media-player allow-list
Recognized(proc) ==
    /\ proc.readable
    /\ \E k \in 1..Len(proc.comm) :
          /\ proc.comm[k] = "\n"
          /\ SubSeq(proc.comm, 1, k - 1) \in Range(media_player_comm)

\* this step serves a Read
ReadServed == res = NoRes /\ res'.req.op = "read"

\* C1: a Read emits a watch-history insert exactly when the caller's name is
\* recognized and its process id differs from the stored last_pid, and then
\* it emits one, for the path read, and stores the id.
C1_Step ==
    ReadServed =>
        IF Recognized(res'.req.proc) /\ res'.req.pid # last_pid
        THEN /\ Len(inserts') = Len(inserts) + 1
             /\ SubSeq(inserts', 1, Len(inserts)) = inserts
             /\ inserts'[Len(inserts')].path = res'.req.path
             /\ inserts'[Len(inserts')].pid = res'.req.pid
             /\ last_pid' = res'.req.pid
        ELSE inserts' = inserts

C1_InsertExactlyOnNewRecognizedPid == [][C1_Step]_vars

\* reads by 101, 101 again, 102, 101: three inserts, by 101, 102 and 101
C1_Witness ==
    /\ Len(inserts) = 3
    /\ inserts[1].pid = 101 /\ inserts[2].pid = 102 /\ inserts[3].pid = 101
    /\ \A k \in 1..3 : inserts[k].path = p_root \o n_x_mp4
    /\ res.req.op = "read" /\ res.req.pid = 101

\* C2: a Read whose caller is not recognized emits no insert and leaves
\* last_pid as it was, whatever the process id and the stored id.
C2_Step ==
    (ReadServed /\ ~Recognized(res'.req.proc)) =>
        (inserts' = inserts /\ last_pid' = last_pid)

C2_UnrecognizedReadDoesNothing == [][C2_Step]_vars

\* an unrecognized read by a process other than the stored one, after an insert
C2_Witness ==
    /\ res.req.op = "read"
    /\ res.req.proc = [readable |-> TRUE, comm |-> comm_long]
    /\ Len(inserts) = 1
    /\ last_pid = 101
    /\ res.req.pid = 102

\* C11: when the caller's process name cannot be obtained, the Read returns
\* -EIO from the watch check: no lookup, no open, no pread, no insert,
\* last_pid as it was; the mount and everything it serves from stay as they
\* were, so later requests are served as before.
C11_Step ==
    (ReadServed /\ ~res'.req.proc.readable) =>
        /\ res'.ret = -EIO
        /\ res'.at = "log"
        /\ fds' = fds
        /\ inserts' = inserts
        /\ last_pid' = last_pid
        /\ pc' = "mounted" /\ files' = files /\ sessions' = sessions

C11_IdentityLookupFailure == [][C11_Step]_vars

\* a read of a cataloged file by a process whose comm cannot be read, after
\* another process was recorded
C11_Witness ==
    /\ res.req.op = "read"
    /\ ~res.req.proc.readable
    /\ res.req.path = p_root \o n_x_mp4
    /\ res.ret = -EIO
    /\ last_pid = 101 /\ res.req.pid = 102
    /\ Len(inserts) = 1

\* C12: when db_insert reports an error on the Read that triggered it, the
\* Read returns -EIO, the code of the other I/O failures, and reads no file
\* data.
C12_Step ==
    (ReadServed /\ inserts' # inserts /\ inserts'[Len(inserts')].ret = -1) =>
        /\ res'.ret = -EIO
        /\ res'.at = "log"
        /\ fds' = fds

C12_InsertFailureIsEIO == [][C12_Step]_vars

\* C22: a Read of a path that names no Catalog entry, which returns
\* not-found, emits no insert and leaves last_pid as it was, also for a
\* recognized caller with a new process id; so every insert is for a path
\* that names a Catalog entry.
C22_Step ==
    (/\ ReadServed
     /\ EntriesNamed(res'.req.path) = {}
     /\ res'.ret = -ENOENT) =>
        (inserts' = inserts /\ last_pid' = last_pid)

C22_NoInsertForUncataloguedPath == [][C22_Step]_vars

\* C23: when db_insert fails on a Read by a recognized process with a new
\* id, last_pid keeps its previous value, so that process's next Read tries
\* the insert again.
C23_Step ==
    (ReadServed /\ inserts' # inserts /\ inserts'[Len(inserts')].ret = -1) =>
        last_pid' = last_pid

C23_FailedInsertKeepsLastPid == [][C23_Step]_vars

\* C24: suppression goes by process id alone.  While last_pid is the id of
\* a recognized caller, a Read by it emits no insert and leaves last_pid,
\* whichever path it reads.
C24_Step ==
    (ReadServed /\ Recognized(res'.req.proc) /\ res'.req.pid = last_pid) =>
        (inserts' = inserts /\ last_pid' = last_pid)

C24_SuppressionByPidOnly == [][C24_Step]_vars

\* process 101 has read /x.mp4 and now /y.mp4: one insert, for /x.mp4
C24_Witness ==
    /\ Len(inserts) = 1
    /\ inserts[1].path = p_root \o n_x_mp4 /\ inserts[1].pid = 101
    /\ inserts[1].ret = 0
    /\ res.req.op = "read"
    /\ res.req.path = p_root \o n_y_mp4
    /\ res.req.pid = 101 /\ Recognized(res.req.proc)
    /\ res.ret = 1
    /\ last_pid = 101

\* the name of a virtual path without its final '.' and what follows it;
\* defined only for names with a '.'
Stem(name) ==
    CHOOSE p \in {SubSeq(name, 1, n) : n \in 0..Len(name)} :
        \E e \in {SubSeq(name, n, Len(name)) : n \in 1..(Len(name) + 1)} :
            /\ name = p \o <<".">> \o e
            /\ "." \notin Range(e)

\* C20: the title handed to the watch-history store for "/<name>" is <name>
\* up to, not including, its final '.'; for a name without a '.' db_insert
\* fails before any statement is executed.
C20_TitleIsNameWithoutExtension ==
    \A k \in 1..Len(inserts) :
        LET name == Tail(inserts[k].path) IN
        IF "." \in Range(name)
        THEN inserts[k].executed /\ inserts[k].title = Stem(name)
        ELSE ~inserts[k].executed /\ inserts[k].ret = -1

\* inserts for /x.y.mp4 with title x.y and for /noext, which failed
C20_Witness ==
    \E k, m \in 1..Len(inserts) :
        /\ inserts[k].path = p_root \o n_x_y_mp4
        /\ inserts[k].title = <<"x", ".", "y">>
        /\ inserts[m].path = p_noext
        /\ inserts[m].ret = -1

\* C17: when Attributes is asked for a Catalog entry and stat on its backing
\* file fails, it returns the negated error of that failure: -ENOENT for a
\* backing file that has vanished.
C17_StatErrorPassedOn ==
    LET hits == EntriesNamed(res.req.path)
        k    == CHOOSE h \in hits : \A g \in hits : h <= g
    IN  (/\ res.req.op = "getattr" /\ res.req.time_ok
         /\ hits # {}
         /\ ~disk[origin[k]].linked
         /\ stat(files.paths[k]).ret = -1) =>
            res.ret = -ENOENT

\* C14: every descriptor a successful Open stored in a handle is closed when
\* its file session ends, once: the descriptors open in the process are
\* those of the sessions still open, so they do not pile up as files are
\* opened and closed.
C14_HandleClosedWithSession == DOMAIN fds \subseteq sessions

\* C15: Open, its allocation succeeding, has three outcomes.  For a path
\* naming a Catalog entry whose backing file can be opened: 0, and the handle
\* holds a new descriptor on that file.  For a path naming no entry: -ENOENT.
\* For an entry whose backing file is gone: the negated error of open, which
\* is -ENOENT.  In the failure cases no descriptor and no handle are made; in
\* every case the Catalog, last_pid and the inserts stay as they were.
C15_Step ==
    (res = NoRes /\ res'.req.op = "open" /\ res'.ret # -ENOMEM) =>
        LET hits == EntriesNamed(res'.req.path)
            k    == CHOOSE h \in hits : \A g \in hits : h <= g
            fh   == res'.fh
        IN  /\ files' = files /\ last_pid' = last_pid /\ inserts' = inserts
            /\ IF hits # {} /\ disk[origin[k]].linked
               THEN /\ res'.ret = 0
                    /\ fh \notin DOMAIN fds
                    /\ fds' = (fh :> origin[k]) @@ fds
                    /\ sessions' = sessions \cup {fh}
               ELSE /\ res'.ret = -ENOENT
                    /\ fds' = fds /\ sessions' = sessions

C15_OpenOutcomes == [][C15_Step]_vars

\* C18: a Read closes a descriptor exactly when it opened it.  Without a
\* handle, what it opened is closed again on every return path, a failing
\* pread included; with a handle it closes nothing.  Either way the open
\* descriptors after the Read are those before it.
C18_Step == ReadServed => fds' = fds

C18_ReadClosesWhatItOpened == [][C18_Step]_vars

\* C21: once Build has succeeded the Catalog is read-only while the mount
\* is served: no Attributes, ListDirectory, Open or Read, succeeding or
\* failing, and nothing else that happens meanwhile, changes its count, its
\* names, its paths or their order.
C21_Step == (pc = "mounted" /\ pc' = "mounted") => files' = files

C21_CatalogReadOnly == [][C21_Step]_vars

\* the Catalog of the example, one backing file removed, with a file open
\* and a Read through its handle just served
C21_Witness ==
    /\ pc = "mounted"
    /\ files.names = <<n_a_mp4, <<"B", ".", "m", "k", "v">> >>
    /\ files.paths = <<library_path \o n_a_mp4,
                       library_path \o <<"B", ".", "m", "k", "v">> >>
    /\ fds # <<>>
    /\ res.req.op = "read" /\ res.req.fi # 0 /\ res.ret = 1
    /\ ~disk[2].linked

-----------------------------------------------------------------------------
(* Startup claim, checked under Spec *)

\* something of the mount has run: a callback was served or is being served
Served ==
    res # NoRes \/ th # <<>> \/ fds # <<>> \/ sessions # {} \/ inserts # <<>>

\* C13: the mount is entered, and callbacks are served, only after
\* load_config, db_init and library_init have succeeded, in that order; when
\* one of them fails the process exits with a failure status, having mounted
\* nothing and served nothing, and does nothing more.
C13_StartupOrder ==
    /\ [](/\ pc = "mounted" =>
               boot = << [call |-> "load_config", ret |-> 0],
                         [call |-> "db_init", ret |-> 0],
                         [call |-> "library_init", ret |-> 0] >>
          /\ Served => pc = "mounted"
          /\ (\E k \in 1..Len(boot) : boot[k].ret # 0) =>
                 pc = "exit_failure" /\ ~Served)
    /\ [][pc # "exit_failure"]_vars

\* a callback served after the three startup steps
C13_Witness ==
    /\ pc = "mounted"
    /\ Len(boot) = 3
    /\ res.req.op = "getattr" /\ res.ret = 0

-----------------------------------------------------------------------------
(* Concurrency claim, checked under SpecConc *)

\* C3: the read-compare-update of last_pid is atomic: when the worker
\* threads serve Reads of one recognized process whose id is not the stored
\* one, exactly one insert is emitted whatever the interleaving, not one per
\* thread.  (last_pid is -1 when the threads start.)
C3_OneInsertPerProcess ==
    (/\ DOMAIN th = Threads
     /\ \A t \in Threads : th[t].at = "returned" /\ Recognized(th[t].proc)
     /\ \A t, u \in Threads : th[t].pid = th[u].pid) =>
        Len(inserts) = 1

=============================================================================
